---- MODULE Spec2Model ----
(***************************************************************************)
(* Rust binding of the tree-sitter grammar for YSH                         *)
(* (editors/vscode-ysh/tree-sitter-ysh/bindings/rust/lib.rs).              *)
(*                                                                         *)
(* The unit declares the foreign function tree_sitter_ysh, wraps it in the *)
(* accessor language(), and embeds three resource files of the grammar     *)
(* project with include_str!.  The model covers                            *)
(*   - the build: include_str! resolves a path relative to lib.rs and      *)
(*     copies the file's bytes into the binary's read-only data;           *)
(*   - the process: threads that call language(), read the constants and   *)
(*     configure a fresh tree_sitter::Parser with a handle they hold (the  *)
(*     body of tests::test_can_load_grammar);                              *)
(*   - the environment: the grammar project's files may be edited after    *)
(*     the build, and the process image is loaded at some base address.    *)
(* Two copies of the process ("a" and its twin "b") are kept so that       *)
(* determinism across runs can be stated.  Spec runs process "a" alone     *)
(* (the twin is not started); SpecPair steps both copies together on the   *)
(* same calls.                                                             *)
(***************************************************************************)
EXTENDS Integers, Sequences, FiniteSets

\* ---------------------------------------------------------------- bounds
NumThreads == 2
MaxCalls == 2

Threads == 1..NumThreads
Runs == {"a", "b"}

\* ------------------------------------------------- the grammar project
\* Contents a resource file may have (byte strings).
Texts == {<<1>>, <<2, 1>>}

\* lib.rs, relative to the root of the grammar project.
SourceFile == <<"bindings", "rust", "lib.rs">>

\* The resource files of the grammar project, relative to its root.
ResourceFiles ==
  { <<"src", "node-types.json">>,
    <<"queries", "highlights.scm">>,
    <<"queries", "locals.scm">> }

ConstNames == {"NODE_TYPES", "HIGHLIGHTS_QUERY", "LOCALS_QUERY"}

\* A copy-and-paste slip: the highlights constant embeds the locals file.
IncludePath_pasted ==
  [k \in ConstNames |->
     CASE k = "NODE_TYPES"       -> <<"..", "..", "src", "node-types.json">>
       [] k = "HIGHLIGHTS_QUERY" -> <<"..", "..", "queries", "locals.scm">>
       [] k = "LOCALS_QUERY"     -> <<"..", "..", "queries", "locals.scm">>]

\* The argument of include_str! for each constant.
IncludePath ==
  [k \in ConstNames |->
     CASE k = "NODE_TYPES"       -> <<"..", "..", "src", "node-types.json">>
       [] k = "HIGHLIGHTS_QUERY" -> <<"..", "..", "queries", "highlights.scm">>
       [] k = "LOCALS_QUERY"     -> <<"..", "..", "queries", "locals.scm">>]

\* The resource file the documentation of each constant names.
DocumentedFile ==
  [k \in ConstNames |->
     CASE k = "NODE_TYPES"       -> <<"src", "node-types.json">>
       [] k = "HIGHLIGHTS_QUERY" -> <<"queries", "highlights.scm">>
       [] k = "LOCALS_QUERY"     -> <<"queries", "locals.scm">>]

\* What a build reports for a file that does not exist (no byte string).
Missing == <<-1>>

\* Directory of a file path.
Parent(p) == SubSeq(p, 1, Len(p) - 1)

RECURSIVE Walk(_, _)
\* Walk the components of rel starting from directory dir; ".." goes up.
Walk(dir, rel) ==
  IF rel = << >> THEN dir
  ELSE IF Head(rel) = ".."
       THEN Walk(IF dir = << >> THEN dir ELSE Parent(dir), Tail(rel))
       ELSE Walk(Append(dir, Head(rel)), Tail(rel))

\* include_str!(rel) inside SourceFile, built against the file tree t:
\* the path is taken relative to the directory of the including file and
\* the bytes are copied as they are.
include_str(t, rel) ==
  LET p == Walk(Parent(SourceFile), rel)
  IN  IF p \in DOMAIN t THEN t[p] ELSE Missing

\* The read-only data the build puts into the binary.
Build(t) == [k \in ConstNames |-> include_str(t, IncludePath[k])]

\* --------------------------------------------- the linked grammar library
NULL == 0

\* Load addresses the image of the process may get.
Bases == {4096, 8192}

\* Offset of the static TSLanguage object inside the image.
LanguageOffset == 64

\* ABI versions the tree-sitter runtime accepts.
MIN_COMPATIBLE_LANGUAGE_VERSION == 13
LANGUAGE_VERSION == 14

\* Every value a version field read through an invalid pointer may show.
AnyVersion == 0..(LANGUAGE_VERSION + 1)

VARIABLES
  tree,       \* the resource files of the grammar project, as they are now
  buildTree,  \* the resource files as they were when the crate was built
  rodata,     \* the constants embedded in the binary
  abi,        \* version field of the static TSLanguage of the grammar
  base,       \* base[r]: load address of the image of process r
  live,       \* live[r]: addresses of process r holding a TSLanguage
  pc,         \* pc[r][t]: "idle", "in_language" or "panicked"
  ret,        \* ret[r][t]: the handles language() returned to thread t
  ffi,        \* ffi[r][t]: invocations of tree_sitter_ysh made by thread t
  parser,     \* parser[r]: language of the parser configured last
  status,     \* status[r]: outcome of the last set_language
  obs         \* obs[r]: the last read of a constant in process r

vars == <<tree, buildTree, rodata, abi, base, live, pc, ret, ffi, parser,
          status, obs>>

\* The foreign function: the address of the static TSLanguage object.
tree_sitter_ysh(r) == base[r] + LanguageOffset

\* The language definition stored at a valid handle.
LanguageDef == [name |-> "ysh", version |-> abi]

\* A handle is valid when it points at a TSLanguage of its process.
Valid(r, h) == h \in live[r]

\* An accessor that gives up once a handle has been handed out.
language_once(r) ==
  IF \A t \in Threads : ret[r][t] = << >> THEN tree_sitter_ysh(r) ELSE NULL

\* An accessor that is not reentrant: overlapping calls disturb each other.
language_racy(r) ==
  IF Cardinality({t \in Threads : pc[r][t] = "in_language"}) > 1
  THEN NULL ELSE tree_sitter_ysh(r)

\* An accessor whose result depends on where the image was loaded.
language_placed(r) ==
  IF base[r] = 4096 THEN tree_sitter_ysh(r) ELSE NULL

\* An accessor that returns no language at all.
language_null(r) == NULL

\* pub fn language() -> Language { unsafe { tree_sitter_ysh() } }
language(r) == tree_sitter_ysh(r)

\* The version set_language may read through handle h: the field of the
\* static object, or anything at all when h does not point at one.
VersionsAt(r, h) == IF Valid(r, h) THEN {abi} ELSE AnyVersion

\* Parser::set_language: the runtime's ABI compatibility check.
set_language(v) ==
  IF v < MIN_COMPATIBLE_LANGUAGE_VERSION \/ v > LANGUAGE_VERSION
  THEN "Err" ELSE "Ok"

\* The outcomes set_language may have for handle h.
OutcomesAt(r, h) == {set_language(v) : v \in VersionsAt(r, h)}

\* ------------------------------------------------------------------ Init
\* The crate is built against some content of the resource files and the
\* processes in R are loaded; a process outside R is not started.
Start(R) ==
  /\ buildTree \in [ResourceFiles -> Texts]
  /\ tree = buildTree
  /\ rodata = Build(buildTree)
  /\ abi \in MIN_COMPATIBLE_LANGUAGE_VERSION..LANGUAGE_VERSION
  /\ base \in [Runs -> Bases \cup {NULL}]
  /\ \A r \in Runs : base[r] # NULL <=> r \in R
  /\ live = [r \in Runs |->
               IF r \in R THEN {base[r] + LanguageOffset} ELSE {}]
  /\ pc = [r \in Runs |-> [t \in Threads |-> "idle"]]
  /\ ret = [r \in Runs |-> [t \in Threads |-> << >>]]
  /\ ffi = [r \in Runs |-> [t \in Threads |-> 0]]
  /\ parser = [r \in Runs |-> NULL]
  /\ status = [r \in Runs |-> "none"]
  /\ obs = [r \in Runs |-> [name |-> "none", text |-> << >>]]

\* One process.
Init == Start({"a"})

\* The process and its twin.
InitPair == Start(Runs)

\* --------------------------------------------------------------- actions
\* Thread t of the processes in R calls language().
LanguageEnter(R, t) ==
  /\ \A r \in R : pc[r][t] = "idle" /\ Len(ret[r][t]) < MaxCalls
  /\ pc' = [r \in Runs |->
              IF r \in R THEN [pc[r] EXCEPT ![t] = "in_language"] ELSE pc[r]]
  /\ UNCHANGED <<tree, buildTree, rodata, abi, base, live, ret, ffi, parser,
                 status, obs>>

\* A body that invokes the foreign function twice.
LanguageBody_twice(R, t) ==
  /\ \A r \in R : pc[r][t] = "in_language"
  /\ ffi' = [r \in Runs |->
               IF r \in R THEN [ffi[r] EXCEPT ![t] = @ + 2] ELSE ffi[r]]
  /\ ret' = [r \in Runs |->
               IF r \in R THEN [ret[r] EXCEPT ![t] = Append(@, language(r))]
               ELSE ret[r]]
  /\ pc' = [r \in Runs |->
              IF r \in R THEN [pc[r] EXCEPT ![t] = "idle"] ELSE pc[r]]
  /\ UNCHANGED <<tree, buildTree, rodata, abi, base, live, parser, status,
                 obs>>

\* A body that keeps state: it gives the language object up as it returns.
LanguageBody_stateful(R, t) ==
  /\ \A r \in R : pc[r][t] = "in_language"
  /\ ffi' = [r \in Runs |->
               IF r \in R THEN [ffi[r] EXCEPT ![t] = @ + 1] ELSE ffi[r]]
  /\ ret' = [r \in Runs |->
               IF r \in R THEN [ret[r] EXCEPT ![t] = Append(@, language(r))]
               ELSE ret[r]]
  /\ pc' = [r \in Runs |->
              IF r \in R THEN [pc[r] EXCEPT ![t] = "idle"] ELSE pc[r]]
  /\ live' = [r \in Runs |-> IF r \in R THEN {} ELSE live[r]]
  /\ UNCHANGED <<tree, buildTree, rodata, abi, base, parser, status, obs>>

\* The body of language(): one invocation of tree_sitter_ysh, whose result
\* is returned to the caller.
LanguageBody(R, t) ==
  /\ \A r \in R : pc[r][t] = "in_language"
  /\ ffi' = [r \in Runs |->
               IF r \in R THEN [ffi[r] EXCEPT ![t] = @ + 1] ELSE ffi[r]]
  /\ ret' = [r \in Runs |->
               IF r \in R THEN [ret[r] EXCEPT ![t] = Append(@, language(r))]
               ELSE ret[r]]
  /\ pc' = [r \in Runs |->
              IF r \in R THEN [pc[r] EXCEPT ![t] = "idle"] ELSE pc[r]]
  /\ UNCHANGED <<tree, buildTree, rodata, abi, base, live, parser, status,
                 obs>>

\* A read that loads the file again at run time and keeps what it loaded.
ReadConst_reload(R, t, k) ==
  /\ \A r \in R : pc[r][t] = "idle"
  /\ rodata' = [rodata EXCEPT ![k] = include_str(tree, IncludePath[k])]
  /\ obs' = [r \in Runs |->
               IF r \in R THEN [name |-> k, text |-> rodata'[k]] ELSE obs[r]]
  /\ UNCHANGED <<tree, buildTree, abi, base, live, pc, ret, ffi, parser,
                 status>>

\* Thread t reads the constant k.
ReadConst(R, t, k) ==
  /\ \A r \in R : pc[r][t] = "idle"
  /\ obs' = [r \in Runs |->
               IF r \in R THEN [name |-> k, text |-> rodata[k]] ELSE obs[r]]
  /\ UNCHANGED <<tree, buildTree, rodata, abi, base, live, pc, ret, ffi,
                 parser, status>>

\* A configuration that releases the language object once it is installed.
SetLanguage_release(R, t, i) ==
  /\ \A r \in R : pc[r][t] = "idle" /\ i \in 1..Len(ret[r][t])
  /\ \E o \in [R -> {"Ok", "Err"}] :
       /\ \A r \in R : o[r] \in OutcomesAt(r, ret[r][t][i])
       /\ status' = [r \in Runs |-> IF r \in R THEN o[r] ELSE status[r]]
       /\ parser' = [r \in Runs |->
                       IF r \in R
                       THEN IF o[r] = "Ok" THEN ret[r][t][i] ELSE NULL
                       ELSE parser[r]]
       /\ pc' = [r \in Runs |->
                   IF r \in R /\ o[r] = "Err"
                   THEN [pc[r] EXCEPT ![t] = "panicked"] ELSE pc[r]]
  /\ live' = [r \in Runs |->
                IF r \in R THEN live[r] \ {ret[r][t][i]} ELSE live[r]]
  /\ UNCHANGED <<tree, buildTree, rodata, abi, base, ret, ffi, obs>>

\* Thread t creates a parser and configures it with the i-th handle it got
\* from language(); expect() panics on the error outcome.
SetLanguage(R, t, i) ==
  /\ \A r \in R : pc[r][t] = "idle" /\ i \in 1..Len(ret[r][t])
  /\ \E o \in [R -> {"Ok", "Err"}] :
       /\ \A r \in R : o[r] \in OutcomesAt(r, ret[r][t][i])
       /\ status' = [r \in Runs |-> IF r \in R THEN o[r] ELSE status[r]]
       /\ parser' = [r \in Runs |->
                       IF r \in R
                       THEN IF o[r] = "Ok" THEN ret[r][t][i] ELSE NULL
                       ELSE parser[r]]
       /\ pc' = [r \in Runs |->
                   IF r \in R /\ o[r] = "Err"
                   THEN [pc[r] EXCEPT ![t] = "panicked"] ELSE pc[r]]
  /\ UNCHANGED <<tree, buildTree, rodata, abi, base, live, ret, ffi, obs>>

\* The grammar project changes a resource file after the build.
EditResource(f, txt) ==
  /\ tree[f] # txt
  /\ tree' = [tree EXCEPT ![f] = txt]
  /\ UNCHANGED <<buildTree, rodata, abi, base, live, pc, ret, ffi, parser,
                 status, obs>>

\* One process.
Next ==
  \/ \E t \in Threads : LanguageEnter({"a"}, t)
  \/ \E t \in Threads : LanguageBody({"a"}, t)
  \/ \E t \in Threads, k \in ConstNames : ReadConst({"a"}, t, k)
  \/ \E t \in Threads, i \in 1..MaxCalls : SetLanguage({"a"}, t, i)
  \/ \E f \in ResourceFiles, txt \in Texts : EditResource(f, txt)

Spec == Init /\ [][Next]_vars

\* The process and its twin, stepped together on the same calls.  The
\* steps are those of the two processes; the files on disk are left as
\* they were built.
NextPair ==
  \/ \E t \in Threads : LanguageEnter(Runs, t)
  \/ \E t \in Threads : LanguageBody(Runs, t)
  \/ \E t \in Threads, k \in ConstNames : ReadConst(Runs, t, k)
  \/ \E t \in Threads, i \in 1..MaxCalls : SetLanguage(Runs, t, i)

SpecPair == InitPair /\ [][NextPair]_vars

TypeOK ==
  /\ tree \in [ResourceFiles -> Texts]
  /\ buildTree \in [ResourceFiles -> Texts]
  /\ rodata \in [ConstNames -> Texts \cup {Missing}]
  /\ base \in [Runs -> Bases \cup {NULL}]
  /\ \A r \in Runs :
       /\ status[r] \in {"none", "Ok", "Err"}
       /\ \A t \in Threads :
            /\ pc[r][t] \in {"idle", "in_language", "panicked"}
            /\ Len(ret[r][t]) <= MaxCalls

\* ---------------------------------------------------------------- claims
\* The memory of process r that holds language definitions.
Image(r) == [h \in live[r] |-> LanguageDef]

\* The handles thread t of process r got from language() so far.
Held(r, t) == {ret[r][t][i] : i \in 1..Len(ret[r][t])}

\* C1: configuring a freshly created parser with the result of language()
\* succeeds: set_language has Ok as its only outcome for every handle
\* language() returned, the first call's and every later call's, and no
\* thread saw the error outcome or panicked in expect().
C1_SetLanguageSucceeds ==
  \A r \in Runs :
    /\ status[r] # "Err"
    /\ \A t \in Threads :
         /\ pc[r][t] # "panicked"
         /\ \A i \in 1..Len(ret[r][t]) :
              OutcomesAt(r, ret[r][t][i]) = {"Ok"}

\* C1 witness: a thread configured a parser with the handle of its second
\* call of language() and got Ok.
C1_Witness ==
  \E t \in Threads :
    /\ Len(ret["a"][t]) >= 2
    /\ status["a"] = "Ok"
    /\ parser["a"] = ret["a"][t][2]

\* C2: under every interleaving of the threads, each call of language()
\* returns what a call running alone returns (the address of the static
\* language object) and each read of a constant returns the text the
\* constant had when the process started.
C2_ReentrantLookup ==
  \A r \in Runs :
    /\ \A t \in Threads : Held(r, t) \subseteq {tree_sitter_ysh(r)}
    /\ obs[r].name # "none" => obs[r].text = Build(buildTree)[obs[r].name]

\* C2 witness: two calls of language() are in flight at the same time,
\* after an earlier call returned and a constant was read.
C2_Witness ==
  \E t1, t2 \in Threads :
    /\ t1 # t2
    /\ pc["a"][t1] = "in_language"
    /\ pc["a"][t2] = "in_language"
    /\ Len(ret["a"][t1]) >= 1
    /\ obs["a"].name # "none"

\* C3: every handle language() returned so far is still valid, and so is
\* the language of every configured parser, whatever calls of language()
\* and parser configurations came after it.
C3_HandleStaysValid ==
  \A r \in Runs :
    /\ \A t \in Threads : \A h \in Held(r, t) : Valid(r, h)
    /\ parser[r] # NULL => Valid(r, parser[r])

\* C3 witness: a parser is configured with a handle, and two threads
\* each made two calls of language() and hold the handles of all of them.
C3_Witness ==
  \E t1, t2 \in Threads :
    /\ t1 # t2
    /\ Len(ret["a"][t1]) >= 2
    /\ Len(ret["a"][t2]) >= 2
    /\ status["a"] = "Ok"
    /\ parser["a"] = ret["a"][t1][1]

\* C4: language() has no runtime error path: a call that was entered can
\* always complete, and what it returns is never the null handle but a
\* handle of a language definition.
C4_NoErrorPath ==
  \A r \in Runs, t \in Threads :
    /\ pc[r][t] = "in_language" => ENABLED LanguageBody({r}, t)
    /\ \A h \in Held(r, t) : h # NULL /\ h \in DOMAIN Image(r)

\* C4 witness: a thread is inside its second call while the other thread
\* completed all of its calls.
C4_Witness ==
  \E t1, t2 \in Threads :
    /\ t1 # t2
    /\ pc["a"][t1] = "in_language"
    /\ Len(ret["a"][t1]) >= 1
    /\ Len(ret["a"][t2]) >= 2
    /\ pc["a"][t2] = "idle"

\* C5: the embedded constants are immutable: no step of the process or of
\* its environment changes the text of NODE_TYPES, HIGHLIGHTS_QUERY or
\* LOCALS_QUERY.
C5_ConstantsImmutable == [][rodata' = rodata]_vars

\* C5 witness: the constants were read and language() was called after
\* every resource file on disk had been changed.
C5_Witness ==
  /\ \A f \in ResourceFiles : tree[f] # buildTree[f]
  /\ obs["a"].name # "none"
  /\ \E t \in Threads : Len(ret["a"][t]) >= 1

\* C6: each constant is, byte for byte, the build-time content of the
\* resource file its documentation names: NODE_TYPES of
\* src/node-types.json, HIGHLIGHTS_QUERY of queries/highlights.scm and
\* LOCALS_QUERY of queries/locals.scm.
C6_ConstantsAreFiles ==
  \A k \in ConstNames : rodata[k] = buildTree[DocumentedFile[k]]

\* C6 witness: the highlights file differed from the other two files at
\* build time, was edited afterwards, and HIGHLIGHTS_QUERY was read.
C6_Witness ==
  /\ buildTree[<<"queries", "highlights.scm">>]
       # buildTree[<<"queries", "locals.scm">>]
  /\ buildTree[<<"queries", "highlights.scm">>]
       # buildTree[<<"src", "node-types.json">>]
  /\ tree[<<"queries", "highlights.scm">>]
       # buildTree[<<"queries", "highlights.scm">>]
  /\ obs["a"].name = "HIGHLIGHTS_QUERY"

\* C7: language() is a single delegation: each completed call invoked
\* tree_sitter_ysh exactly once and returned its result unchanged.
C7_SingleDelegation ==
  \A r \in Runs, t \in Threads :
    /\ ffi[r][t] = Len(ret[r][t])
    /\ \A i \in 1..Len(ret[r][t]) : ret[r][t][i] = tree_sitter_ysh(r)

\* C7 witness: every thread completed two calls of language().
C7_Witness ==
  \A t \in Threads : Len(ret["a"][t]) >= 2 /\ ffi["a"][t] >= 2

\* A step of a call of language(): the call is entered or it returns.
LanguageStep ==
  \/ ret' # ret
  \/ \E r \in Runs, t \in Threads :
       pc[r][t] = "idle" /\ pc'[r][t] = "in_language"

\* C8: a call of language() changes no state of the unit: the constants,
\* the resolved symbol and the language object are the same after every
\* step of a call, and the handle a call returns equals every handle
\* returned before it, however many calls there were.
C8_CallHasNoEffect ==
  [][LanguageStep =>
       /\ rodata' = rodata
       /\ base' = base
       /\ live' = live
       /\ abi' = abi
       /\ \A r \in Runs, t \in Threads :
            Len(ret'[r][t]) > Len(ret[r][t]) =>
              \A t2 \in Threads :
                Held(r, t2) \subseteq {ret'[r][t][Len(ret'[r][t])]}]_vars

\* C8 witness: three calls of language() have returned, two of them to
\* the same thread.
C8_Witness ==
  \E t1, t2 \in Threads :
    /\ t1 # t2
    /\ Len(ret["a"][t1]) >= 2
    /\ Len(ret["a"][t2]) = 1
    /\ pc["a"][t2] = "idle"

\* C9: language() is deterministic: in two runs stepped together on the
\* same calls, corresponding calls return handles that are valid and
\* denote the same language definition, and all handles returned within
\* one run are equal.
C9_Deterministic ==
  /\ \A t \in Threads :
       /\ Len(ret["a"][t]) = Len(ret["b"][t])
       /\ \A i \in 1..Len(ret["a"][t]) :
            /\ Valid("a", ret["a"][t][i])
            /\ Valid("b", ret["b"][t][i])
            /\ Image("a")[ret["a"][t][i]] = Image("b")[ret["b"][t][i]]
  /\ \A r \in Runs, t1, t2 \in Threads :
       \A h1 \in Held(r, t1), h2 \in Held(r, t2) : h1 = h2

\* C9 witness: the two runs are loaded at different addresses, so their
\* handles differ, and in both runs two threads got handles.
C9_Witness ==
  /\ base["a"] # base["b"]
  /\ \A t \in Threads : Len(ret["a"][t]) >= 1 /\ Len(ret["b"][t]) >= 1
  /\ \E t \in Threads :
       /\ Len(ret["a"][t]) >= 2
       /\ ret["a"][t][2] # ret["b"][t][2]
====
